---- MODULE Spec2Model ----
(***************************************************************************)
(* A model of the data-access layer of TradingAgents:                      *)
(*   - the Vendor Router      (dataflows/interface.py, route_to_vendor)    *)
(*   - the Time-Series Cache and the Indicator Engine                      *)
(*                            (dataflows/stockstats_utils.py,              *)
(*                             dataflows/tushare_utils.py),                *)
(*     with the indicator entry points of dataflows/interface.py           *)
(*   - the Site-Search Aggregator                                          *)
(*                            (dataflows/interface.py,                     *)
(*                             get_stock_news_openai)                      *)
(*   - the bulk fetcher       (tushare_fetch/fetcher.py,                   *)
(*                             fetch_all_daily_data)                       *)
(*   - the Reddit search      (dataflows/reddit_downloader.py,             *)
(*                             search_posts_by_date_range)                 *)
(* Strings the code splits, strips or formats are sequences of one-letter  *)
(* strings, so that the conversions are computed and not assumed.          *)
(***************************************************************************)
EXTENDS Integers, Sequences, FiniteSets, TLC

\* ------------------------------------------------------------------ bounds
\* Longest vendor-preference string the configuration may hold.
MaxCfgLen == 3

None == "None"

\* An absent configuration entry; no result yet.
Absent == <<"absent">>
NoResult == <<"none">>

\* ===================================================================
\*  Vendor Router
\* ===================================================================

\* One-letter vendor names: y(finance), a(lpha_vantage), l(ocal); "d" is the
\* name "default" that get_vendor answers when nothing is configured.
Alphabet == {"y", "a", "d", ",", " "}

RECURSIVE StringsUpTo(_)
StringsUpTo(n) ==
    IF n = 0 THEN {<<>>}
    ELSE LET shorter == StringsUpTo(n - 1)
         IN  shorter \cup {Append(s, c) : s \in {t \in shorter : Len(t) = n - 1}, c \in Alphabet}

\* The registry: method -> its vendors, in the order the dict holds them.
VENDOR_METHODS ==
    [get_stock_data |-> << <<"y">>, <<"a">>, <<"l">> >>,
     get_news       |-> << <<"a">>, <<"l">> >>]

TOOLS_CATEGORIES ==
    [core_stock_apis |-> {"get_stock_data"},
     news_data       |-> {"get_news"}]

Methods == {"get_stock_data", "get_news", "get_bogus"}

Range(s) == {s[i] : i \in DOMAIN s}

\* The error get_category_for_method may raise.
CategoryError == "CategoryError"

\* What get_category_for_method makes of a method of no category is stated
\* nowhere: it returns None, or it raises an error of its own.
NoCategoryOutcomes == {None, CategoryError}

\* Category of a method; for a method of no category, the outcome given.
get_category_for_method(m, no_category) ==
    IF \E c \in DOMAIN TOOLS_CATEGORIES : m \in TOOLS_CATEGORIES[c]
    THEN CHOOSE c \in DOMAIN TOOLS_CATEGORIES : m \in TOOLS_CATEGORIES[c]
    ELSE no_category

\* config.get("tool_vendors", {})[method] when present, else
\* config.get("data_vendors", {}).get(category, "default").
get_vendor(cfg, category, m) ==
    IF m \in DOMAIN cfg.tool_vendors THEN cfg.tool_vendors[m]
    ELSE IF category \in DOMAIN cfg.data_vendors THEN cfg.data_vendors[category]
    ELSE <<"d">>

\* str.split(','): the pieces between the commas, empty pieces kept.
RECURSIVE split(_, _)
split(s, sep) ==
    IF \E i \in 1..Len(s) : s[i] = sep
    THEN LET i == CHOOSE k \in 1..Len(s) : s[k] = sep /\ \A j \in 1..(k - 1) : s[j] # sep
         IN  <<SubSeq(s, 1, i - 1)>> \o split(SubSeq(s, i + 1, Len(s)), sep)
    ELSE <<s>>

\* str.strip(): leading and trailing blanks removed.
RECURSIVE strip(_)
strip(t) ==
    IF t # <<>> /\ Head(t) = " " THEN strip(Tail(t))
    ELSE IF t # <<>> /\ t[Len(t)] = " " THEN strip(SubSeq(t, 1, Len(t) - 1))
    ELSE t

\* [v.strip() for v in vendor_config.split(',')]
PrimaryVendors(vendor_config) ==
    LET parts == split(vendor_config, ",")
    IN  [i \in 1..Len(parts) |-> strip(parts[i])]

\* for vendor in all_available_vendors:
\*     if vendor not in fallback_vendors: fallback_vendors.append(vendor)
RECURSIVE AppendMissing(_, _)
AppendMissing(chain, available) ==
    IF available = <<>> THEN chain
    ELSE IF Head(available) \in Range(chain)
         THEN AppendMissing(chain, Tail(available))
         ELSE AppendMissing(Append(chain, Head(available)), Tail(available))

\* Mutant: the configured vendors are left out of the chain's head.
FallbackChainRegistryOnly(primary, available) == available

\* fallback_vendors = primary_vendors.copy() + the registered vendors not in it
FallbackChain(primary, available) == AppendMissing(primary, available)

VARIABLES
    rpc,              \* where route_to_vendor is: "idle", "loop", "invoking", "done"
    method,           \* its argument
    config,           \* the configuration it reads
    primary_vendors,  \* the configured preference, split and stripped
    fallback_vendors, \* the chain
    vidx,             \* position of the for loop in the chain (1-based)
    calls,            \* the vendor invocations made so far: <<vendor, outcome>>
    rresult,          \* what the call returned or raised
    today,            \* the day pd.Timestamp.today() answers
    fs,               \* the cache directory: file name -> the file's lines
    writes,           \* file name -> how often the file was opened for writing
    proc,             \* per request: where get_stock_stats is, and its locals
    hist,             \* the online request that returned last
    ind,              \* the indicator entry point being called, and its locals
    apc,              \* where get_stock_news_openai is
    awindow,          \* its start_date and end_date
    site_idx,         \* position of the for loop in SITES (1-based)
    responses,        \* what search_one_site returned for the sites so far
    all_items,        \* its all_items
    search_summary,   \* its search_summary
    unique_items,     \* its unique_items
    final_result,     \* what the call returned
    printed,          \* the errors it printed
    fpc,              \* where fetch_all_daily_data is
    fidx,             \* position of its for loop in the stock list (1-based)
    completed_stocks, \* its completed_stocks
    fetched_df,       \* df, the frame fetch_daily_data returned
    progress_file,    \* fetch_progress.txt
    fbuf,             \* the lines written to the open progress file
    daily_files,      \* the stock codes with a file in daily/
    fetch_log,        \* what the runs so far fetched and recorded
    rd                \* the search_posts_by_date_range call and its locals

routerVars == <<rpc, method, config, primary_vendors, fallback_vendors, vidx, calls, rresult>>

cacheVars == <<today, fs, writes, proc, hist>>

indVars == <<ind>>

aggVars == <<apc, awindow, site_idx, responses, all_items, search_summary, unique_items,
             final_result, printed>>

fetchVars == <<fpc, fidx, completed_stocks, fetched_df, progress_file, fbuf, daily_files,
               fetch_log>>

redditVars == <<rd>>

vars == <<routerVars, cacheVars, indVars, aggVars, fetchVars, redditVars>>

\* Preference strings the configuration may hold for a category.
ConfigStrings == StringsUpTo(MaxCfgLen)

\* Per-tool overrides the configuration may hold (None: no override).
ToolOverrides == {Absent, <<"l">>, <<"a", ",", "y">>}

Outcomes == {"ok", "rate_limit", "error"}

InitRouter ==
    /\ rpc = "idle"
    /\ method = None
    /\ config = [tool_vendors |-> <<>>, data_vendors |-> <<>>]
    /\ primary_vendors = <<>>
    /\ fallback_vendors = <<>>
    /\ vidx = 0
    /\ calls = <<>>
    /\ rresult = NoResult

Configs(m) ==
    {[tool_vendors |-> IF tv = Absent THEN <<>> ELSE (m :> tv),
      data_vendors |-> IF dv = Absent THEN <<>> ELSE (get_category_for_method(m, None) :> dv)] :
        tv \in ToolOverrides, dv \in ConfigStrings \cup {Absent}}

\* Line 1157: method in VENDOR_METHODS
MethodSupported(m) == m \in DOMAIN VENDOR_METHODS

\* Lines 1153-1165: resolve the preference, check the method, build the chain.
\* An error of get_category_for_method (line 1153) leaves the function before
\* the check of the method.
RouteStart(m, cfg, no_category) ==
    /\ rpc = "idle"
    /\ LET category == get_category_for_method(m, no_category)
           vendor_config == get_vendor(cfg, category, m)
           primary == PrimaryVendors(vendor_config)
       IN  /\ method' = m
           /\ config' = cfg
           /\ calls' = <<>>
           /\ IF category = CategoryError
              THEN /\ rpc' = "done"
                   /\ rresult' = <<"raise", CategoryError>>
                   /\ primary_vendors' = <<>>
                   /\ fallback_vendors' = <<>>
                   /\ vidx' = 0
              ELSE IF ~MethodSupported(m)
              THEN /\ rpc' = "done"
                   /\ rresult' = <<"raise", "ValueError: Method not supported">>
                   /\ primary_vendors' = primary
                   /\ fallback_vendors' = <<>>
                   /\ vidx' = 0
              ELSE /\ rpc' = "loop"
                   /\ rresult' = NoResult
                   /\ primary_vendors' = primary
                   /\ fallback_vendors' = FallbackChain(primary, VENDOR_METHODS[m])
                   /\ vidx' = 1
    /\ UNCHANGED <<cacheVars, indVars, aggVars, fetchVars, redditVars>>

\* Mutant: a configured name that is not registered is invoked all the same.
LoopHeadInvokesUnregistered(chain, i, m) ==
    IF i > Len(chain) THEN "exhausted" ELSE "invoke"

\* Mutant: a configured name that is not registered ends the loop.
LoopHeadStopsAtUnregistered(chain, i, m) ==
    IF i > Len(chain) THEN "exhausted"
    ELSE IF chain[i] \notin Range(VENDOR_METHODS[m]) THEN "exhausted"
    ELSE "invoke"

\* Lines 1167-1169: the next vendor of the chain, skipped when not registered.
LoopHead(chain, i, m) ==
    IF i > Len(chain) THEN "exhausted"
    ELSE IF chain[i] \notin Range(VENDOR_METHODS[m]) THEN "skip"
    ELSE "invoke"

\* Lines 1167-1172 and 1179: the head of one loop iteration, or the loop's end.
RouteLoop ==
    /\ rpc = "loop"
    /\ LET head == LoopHead(fallback_vendors, vidx, method)
       IN  IF head = "exhausted"
           THEN /\ rpc' = "done"
                /\ rresult' = <<"raise", "RuntimeError: No available vendor">>
                /\ vidx' = vidx
           ELSE IF head = "skip"
           THEN /\ rpc' = "loop"
                /\ rresult' = rresult
                /\ vidx' = vidx + 1
           ELSE /\ rpc' = "invoking"
                /\ rresult' = rresult
                /\ vidx' = vidx
    /\ UNCHANGED <<method, config, primary_vendors, fallback_vendors, calls>>
    /\ UNCHANGED <<cacheVars, indVars, aggVars, fetchVars, redditVars>>

\* Mutant: after a rate limit the loop passes over the next vendor.
AfterInvokeSkipsNext(vendor, outcome) ==
    IF outcome = "ok" THEN [pc |-> "done", result |-> <<"return", vendor>>, step |-> 0]
    ELSE IF outcome = "rate_limit" THEN [pc |-> "loop", result |-> NoResult, step |-> 2]
    ELSE [pc |-> "done", result |-> <<"raise", outcome, vendor>>, step |-> 0]

\* Mutant: every vendor error triggers the fallback, not only the rate limit.
AfterInvokeAnyErrorFallsBack(vendor, outcome) ==
    IF outcome = "ok" THEN [pc |-> "done", result |-> <<"return", vendor>>, step |-> 0]
    ELSE [pc |-> "loop", result |-> NoResult, step |-> 1]

\* Mutant: the rate-limit error is not caught.
AfterInvokeNoFallback(vendor, outcome) ==
    IF outcome = "ok" THEN [pc |-> "done", result |-> <<"return", vendor>>, step |-> 0]
    ELSE [pc |-> "done", result |-> <<"raise", outcome, vendor>>, step |-> 0]

\* Lines 1174-1177: try: return impl_func(...) / except RateLimitError: continue
AfterInvoke(vendor, outcome) ==
    IF outcome = "ok" THEN [pc |-> "done", result |-> <<"return", vendor>>, step |-> 0]
    ELSE IF outcome = "rate_limit" THEN [pc |-> "loop", result |-> NoResult, step |-> 1]
    ELSE [pc |-> "done", result |-> <<"raise", outcome, vendor>>, step |-> 0]

\* The vendor's implementation returns or raises.
RouteInvoke(outcome) ==
    /\ rpc = "invoking"
    /\ LET vendor == fallback_vendors[vidx]
           next == AfterInvoke(vendor, outcome)
       IN  /\ calls' = Append(calls, <<vendor, outcome>>)
           /\ rpc' = next.pc
           /\ rresult' = next.result
           /\ vidx' = vidx + next.step
    /\ UNCHANGED <<method, config, primary_vendors, fallback_vendors>>
    /\ UNCHANGED <<cacheVars, indVars, aggVars, fetchVars, redditVars>>

\* The caller has the result (or the error); the router keeps no state of the call.
RouteDone ==
    /\ rpc = "done"
    /\ rpc' = "idle"
    /\ method' = None
    /\ config' = [tool_vendors |-> <<>>, data_vendors |-> <<>>]
    /\ primary_vendors' = <<>>
    /\ fallback_vendors' = <<>>
    /\ vidx' = 0
    /\ calls' = <<>>
    /\ rresult' = NoResult
    /\ UNCHANGED <<cacheVars, indVars, aggVars, fetchVars, redditVars>>

NextRouter ==
    \/ \E m \in Methods : \E cfg \in Configs(m) : \E no_category \in NoCategoryOutcomes :
           RouteStart(m, cfg, no_category)
    \/ RouteLoop
    \/ \E o \in Outcomes : RouteInvoke(o)
    \/ RouteDone

\* ===================================================================
\*  Time-Series Cache and Indicator Engine
\* ===================================================================

\* Dates are day numbers; a date string is two digits with a dash between
\* ("1-8" for day 18), the vendor's trade_date is the two digits alone, and a
\* time of day may follow a blank ("1-8 1").
DigitChars == <<"0", "1", "2", "3", "4", "5", "6", "7", "8", "9">>

Digit(n) == DigitChars[n + 1]

IsDigit(c) == \E n \in 0..9 : DigitChars[n + 1] = c

DigitVal(c) == CHOOSE n \in 0..9 : DigitChars[n + 1] = c

\* strftime("%Y-%m-%d")
strftime(day) == <<Digit(day \div 10), "-", Digit(day % 10)>>

\* str.replace("-", "")
RemoveDashes(s) == SelectSeq(s, LAMBDA c : c # "-")

Timestamp(d, t) == [day |-> d, tod |-> t]

\* What pd.to_datetime accepts: "DD", "D-D", each with an optional " T".
IsDateString(s) ==
    LET c == RemoveDashes(s)
    IN  /\ Len(c) \in {2, 4}
        /\ IsDigit(c[1]) /\ IsDigit(c[2])
        /\ Len(c) = 4 => (c[3] = " " /\ IsDigit(c[4]))

\* pd.to_datetime of a date string
to_datetime(s) ==
    LET c == RemoveDashes(s)
    IN  Timestamp(10 * DigitVal(c[1]) + DigitVal(c[2]),
                  IF Len(c) = 4 THEN DigitVal(c[4]) ELSE 0)

\* A datetime cell as to_csv writes it.
FormatTs(ts) ==
    strftime(ts.day) \o (IF ts.tod = 0 THEN <<>> ELSE <<" ", Digit(ts.tod)>>)

RECURSIVE FormatInt(_)
FormatInt(n) == IF n < 10 THEN <<Digit(n)>> ELSE Append(FormatInt(n \div 10), Digit(n % 10))

RECURSIVE ParseInt(_)
ParseInt(s) ==
    IF Len(s) = 1 THEN DigitVal(s[1])
    ELSE 10 * ParseInt(SubSeq(s, 1, Len(s) - 1)) + DigitVal(s[Len(s)])

\* today - pd.DateOffset(years=15), in the model's days
LookBack == 15

\* The day the process starts on, and the last day the clock reaches.
FirstDay == 20
MaxDay == 21

Symbols == {"S1", "S2"}

\* What the vendor holds: newest first, as pro.daily answers. S2 has no data.
RemoteRows(symbol) ==
    IF symbol = "S1"
    THEN << [trade_date |-> <<"2", "1">>, close |-> 30],
            [trade_date |-> <<"1", "9">>, close |-> 40],
            [trade_date |-> <<"1", "8">>, close |-> 20],
            [trade_date |-> <<"0", "4">>, close |-> 10] >>
    ELSE <<>>

\* pro.daily(ts_code, start_date, end_date): the rows of the window
pro_daily(symbol, start_ts, end_ts) ==
    SelectSeq(RemoteRows(symbol),
              LAMBDA r : /\ to_datetime(start_ts).day <= to_datetime(r.trade_date).day
                         /\ to_datetime(r.trade_date).day <= to_datetime(end_ts).day)

\* A DataFrame: its columns, what its index is, whether its dates are
\* datetimes or strings, its rows.
EmptyFrame == [columns |-> <<>>, index |-> "range", dtype |-> "datetime", rows |-> <<>>]

\* df.sort_values(by a datetime column)
RECURSIVE SortByDate(_)
SortByDate(rows) ==
    IF rows = <<>> THEN <<>>
    ELSE LET m == CHOOSE i \in DOMAIN rows :
                      \A j \in DOMAIN rows :
                          \/ rows[i].date.day < rows[j].date.day
                          \/ (rows[i].date.day = rows[j].date.day /\ i <= j)
             rest == SubSeq(rows, 1, m - 1) \o SubSeq(rows, m + 1, Len(rows))
         IN  <<rows[m]>> \o SortByDate(rest)

\* TushareUtils.get_stock_data
get_stock_data(symbol, start_date, end_date) ==
    LET df == pro_daily(symbol, RemoveDashes(start_date), RemoveDashes(end_date))
    IN  IF df = <<>> THEN EmptyFrame
        ELSE [columns |-> <<"date", "close">>,
              index |-> "range",
              dtype |-> "datetime",
              rows |-> SortByDate([i \in DOMAIN df |->
                          [date |-> to_datetime(df[i].trade_date), close |-> df[i].close]])]

\* A csv file is its lines, a line its cells, a cell its characters (the
\* header's cells hold the column name whole).
CsvRow(columns, row) ==
    [i \in DOMAIN columns |->
        IF columns[i] \in {"date", "Date"} THEN FormatTs(row.date) ELSE FormatInt(row.close)]

\* Bytes of a file that nobody wrote (a write past the end of the file).
Hole == << <<"NUL">> >>

\* DataFrame.to_csv(index=False): the header line, then one line per row
to_csv(frame) ==
    <<[i \in DOMAIN frame.columns |-> <<frame.columns[i]>>]>>
        \o [i \in DOMAIN frame.rows |-> CsvRow(frame.columns, frame.rows[i])]

\* The lines read_csv sees: blank lines are skipped.
NonBlank(content) == SelectSeq(content, LAMBDA line : line # <<>>)

CsvColumns(content) ==
    LET header == NonBlank(content)[1]
    IN  [i \in DOMAIN header |-> header[i][1]]

Position(columns, names) ==
    IF \E i \in DOMAIN columns : columns[i] \in names
    THEN CHOOSE i \in DOMAIN columns : columns[i] \in names
    ELSE 0

\* pd.read_csv: "EmptyDataError" when the file has no line to take the columns
\* from; else the frame, dates as the strings of the file.
CsvReadable(content) == NonBlank(content) # <<>>

read_csv(content) ==
    LET lines == NonBlank(content)
        cols == CsvColumns(content)
        dpos == Position(cols, {"date", "Date"})
        cpos == Position(cols, {"close", "Close"})
    IN  [columns |-> cols,
         index |-> "range",
         dtype |-> "str",
         rows |-> [i \in 1..(Len(lines) - 1) |->
                     [date |-> IF dpos > 0 /\ dpos <= Len(lines[i + 1])
                               THEN lines[i + 1][dpos] ELSE <<>>,
                      close |-> IF cpos > 0 /\ cpos <= Len(lines[i + 1])
                                THEN ParseInt(lines[i + 1][cpos]) ELSE 0]]]

HasColumn(frame, names) == Position(frame.columns, names) > 0

\* Lines 69-74: the date column parsed and made the index.
DatesParse(frame) ==
    (HasColumn(frame, {"date", "Date"}) /\ frame.dtype = "str")
    => \A i \in DOMAIN frame.rows : IsDateString(frame.rows[i].date)

SetDateIndex(frame) ==
    IF HasColumn(frame, {"date", "Date"})
    THEN [columns |-> SelectSeq(frame.columns, LAMBDA c : c \notin {"date", "Date"}),
          index |-> "datetime",
          dtype |-> "datetime",
          rows |-> [i \in DOMAIN frame.rows |->
                      [date |-> IF frame.dtype = "datetime"
                                THEN frame.rows[i].date
                                ELSE to_datetime(frame.rows[i].date),
                       close |-> frame.rows[i].close]]]
    ELSE frame

\* stockstats wrap() of a frame that still has its date column (the offline
\* path): the column becomes the index as it is, strings.
WrapIndex(frame) ==
    IF HasColumn(frame, {"date", "Date"}) THEN "str" ELSE frame.index

SupportedIndicators == {"close", "close_2_sma"}

Indicators == SupportedIndicators \cup {"bogus"}

\* df[indicator] of row i: the close, or the mean of the last two closes.
IndicatorValue(rows, i, indicator) ==
    IF indicator = "close" \/ i = 1 THEN rows[i].close
    ELSE (rows[i - 1].close + rows[i].close) \div 2

\* Mutant: the rows are matched on the whole timestamp.
MatchingRowsExact(rows, curr) ==
    SelectSeq([i \in DOMAIN rows |-> i], LAMBDA i : rows[i].date = curr)

\* Line 81: df[df.index.date == curr_date_dt.date()]
MatchingRows(rows, curr) ==
    SelectSeq([i \in DOMAIN rows |-> i], LAMBDA i : rows[i].date.day = curr.day)

NotATradingDay == <<"return", "N/A: Not a trading day (weekend or holiday)">>

\* Lines 76-87 on the frame `data` whose index kind is `index`.
Lookup(frame, index, indicator, curr_date) ==
    IF ~HasColumn(frame, {"close", "Close"}) \/ indicator \notin SupportedIndicators
    THEN <<"raise", "KeyError">>
    ELSE IF index # "datetime"
    THEN <<"raise", "AttributeError">>
    ELSE LET hits == MatchingRows(frame.rows, to_datetime(curr_date))
         IN  IF hits # <<>>
             THEN <<"return", IndicatorValue(frame.rows, hits[1], indicator)>>
             ELSE NotATradingDay

\* Lines of the file one flush of to_csv's buffer writes.
ChunkLines == 2

Procs == {"p1", "p2"}

\* The offline price files ({symbol}-YFin-data-2015-01-01-2025-03-25.csv).
OfflineFiles ==
    ("S1" :> << << <<"Date">>, <<"Close">> >>,
                << <<"1", "-", "8">>, <<"2", "0">> >>,
                << <<"1", "-", "9">>, <<"4", "0">> >> >>)

CurrDates == {<<"1", "-", "8">>, <<"1", "-", "9", " ", "1">>, <<"2", "-", "0">>, <<"0", "-", "4">>}

NoSeries == [tag |-> "none", frame |-> EmptyFrame]

Raised(err) == [tag |-> err, frame |-> EmptyFrame]

NoFiles == [k \in {} |-> <<>>]

IdleProc ==
    [pc |-> "idle", symbol |-> None, indicator |-> None, curr_date |-> <<>>,
     online |-> FALSE, data_file |-> <<>>, data |-> EmptyFrame, hit |-> FALSE,
     fetched |-> FALSE, failed |-> FALSE, woff |-> 0, dirty |-> FALSE,
     snap |-> NoFiles, series |-> NoSeries, result |-> NoResult, caller |-> None]

NoHist == [valid |-> FALSE, data_file |-> <<>>, series |-> NoSeries,
           fetched |-> FALSE, failed |-> FALSE]

InitCache ==
    /\ today = FirstDay
    /\ fs = NoFiles
    /\ writes = NoFiles
    /\ proc = [p \in Procs |-> IdleProc]
    /\ hist = NoHist

\* Lines 56-59: {symbol}-data-{start_date}-{end_date}.csv
DataFile(symbol, day) == <<symbol, strftime(day - LookBack), strftime(day)>>

\* Lines 28-59: the arguments, and in online mode the name of the cache
\* file; `caller` is who called get_stock_stats, a caller of its own
\* ("direct") or get_stockstats_indicator ("indicator").
Request(symbol, indicator, curr_date, online, caller) ==
    [IdleProc EXCEPT !.pc = IF online THEN "exists" ELSE "offline",
                     !.symbol = symbol,
                     !.indicator = indicator,
                     !.curr_date = curr_date,
                     !.online = online,
                     !.data_file = IF online THEN DataFile(symbol, today) ELSE <<>>,
                     !.snap = fs,
                     !.caller = caller]

\* A call of get_stock_stats.
CacheStart(p, symbol, indicator, curr_date, online) ==
    /\ proc[p].pc = "idle"
    /\ proc' = [proc EXCEPT ![p] = Request(symbol, indicator, curr_date, online, "direct")]
    /\ UNCHANGED <<today, fs, writes, hist, routerVars, indVars, aggVars, fetchVars, redditVars>>

\* Line 61: os.path.exists(data_file)
CacheExists(p) ==
    /\ proc[p].pc = "exists"
    /\ LET hit == proc[p].data_file \in DOMAIN fs
       IN  proc' = [proc EXCEPT ![p].hit = hit,
                                ![p].pc = IF hit THEN "read_csv" ELSE "get_stock_data"]
    /\ UNCHANGED <<today, fs, writes, hist, routerVars, indVars, aggVars, fetchVars, redditVars>>

\* Line 62: pd.read_csv(data_file)
CacheRead(p) ==
    /\ proc[p].pc = "read_csv"
    /\ LET content == fs[proc[p].data_file]
           dirty == \E q \in Procs \ {p} :
                        proc[q].pc = "writing" /\ proc[q].data_file = proc[p].data_file
       IN  IF CsvReadable(content)
           THEN proc' = [proc EXCEPT ![p].data = read_csv(content),
                                     ![p].dirty = dirty,
                                     ![p].pc = "lookup"]
           ELSE proc' = [proc EXCEPT ![p].dirty = dirty,
                                     ![p].series = Raised("EmptyDataError"),
                                     ![p].result = <<"raise", "EmptyDataError">>,
                                     ![p].pc = "done"]
    /\ UNCHANGED <<today, fs, writes, hist, routerVars, indVars, aggVars, fetchVars, redditVars>>

\* Mutant: a failed fetch is taken for an empty result and persisted.
AfterFetchSwallowsError(rec, ok) ==
    IF ok
    THEN [rec EXCEPT !.data = get_stock_data(rec.symbol, rec.data_file[2], rec.data_file[3]),
                     !.fetched = TRUE,
                     !.pc = "to_csv"]
    ELSE [rec EXCEPT !.failed = TRUE, !.data = EmptyFrame, !.pc = "to_csv"]

\* Lines 64-65: get_stock_data returns the window's rows, or its error leaves
\* get_stock_stats.
AfterFetch(rec, ok) ==
    IF ok
    THEN [rec EXCEPT !.data = get_stock_data(rec.symbol, rec.data_file[2], rec.data_file[3]),
                     !.fetched = TRUE,
                     !.pc = "to_csv"]
    ELSE [rec EXCEPT !.failed = TRUE,
                     !.series = Raised("FetchError"),
                     !.result = <<"raise", "FetchError">>,
                     !.pc = "done"]

\* Lines 64-65: the remote fetch, which succeeds or fails.
CacheFetch(p, ok) ==
    /\ proc[p].pc = "get_stock_data"
    /\ proc' = [proc EXCEPT ![p] = AfterFetch(proc[p], ok)]
    /\ UNCHANGED <<today, fs, writes, hist, routerVars, indVars, aggVars, fetchVars, redditVars>>

\* Line 66, first part: to_csv opens data_file for writing, which creates the
\* file or empties it.
CacheWriteOpen(p) ==
    /\ proc[p].pc = "to_csv"
    /\ LET f == proc[p].data_file
       IN  /\ fs' = IF f \in DOMAIN fs THEN [fs EXCEPT ![f] = <<>>] ELSE fs @@ (f :> <<>>)
           /\ writes' = IF f \in DOMAIN writes THEN [writes EXCEPT ![f] = @ + 1]
                        ELSE writes @@ (f :> 1)
    /\ proc' = [proc EXCEPT ![p].pc = "writing", ![p].woff = 0]
    /\ UNCHANGED <<today, hist, routerVars, indVars, aggVars, fetchVars, redditVars>>

\* A write of `chunk` at line offset `off` of a file.
WriteAt(content, off, chunk) ==
    LET end == off + Len(chunk)
        len == IF Len(content) > end THEN Len(content) ELSE end
    IN  [i \in 1..len |->
            IF off < i /\ i <= end THEN chunk[i - off]
            ELSE IF i <= Len(content) THEN content[i]
            ELSE Hole]

\* Line 66, the rest: the lines reach the file one buffer at a time; the last
\* flush closes the file.
CacheWriteFlush(p) ==
    /\ proc[p].pc = "writing"
    /\ LET f == proc[p].data_file
           lines == to_csv(proc[p].data)
           off == proc[p].woff
           end == IF off + ChunkLines < Len(lines) THEN off + ChunkLines ELSE Len(lines)
       IN  /\ fs' = [fs EXCEPT ![f] = WriteAt(fs[f], off, SubSeq(lines, off + 1, end))]
           /\ proc' = [proc EXCEPT ![p].woff = end,
                                   ![p].pc = IF end = Len(lines) THEN "lookup" ELSE "writing"]
    /\ UNCHANGED <<today, writes, hist, routerVars, indVars, aggVars, fetchVars, redditVars>>

\* Lines 68-87: the date index, the indicator, the row of curr_date.
CacheLookup(p) ==
    /\ proc[p].pc = "lookup"
    /\ IF DatesParse(proc[p].data)
       THEN LET data == SetDateIndex(proc[p].data)
            IN  proc' = [proc EXCEPT ![p].data = data,
                                     ![p].series = [tag |-> "ok", frame |-> data],
                                     ![p].result = Lookup(data, data.index,
                                                          proc[p].indicator, proc[p].curr_date),
                                     ![p].pc = "done"]
       ELSE proc' = [proc EXCEPT ![p].series = Raised("ValueError"),
                                 ![p].result = <<"raise", "ValueError">>,
                                 ![p].pc = "done"]
    /\ UNCHANGED <<today, fs, writes, hist, routerVars, indVars, aggVars, fetchVars, redditVars>>

\* Lines 31-41 and 78-87: the offline file read, wrapped and looked up.
OfflineLookup(p) ==
    /\ proc[p].pc = "offline"
    /\ IF proc[p].symbol \in DOMAIN OfflineFiles
       THEN LET data == read_csv(OfflineFiles[proc[p].symbol])
            IN  proc' = [proc EXCEPT ![p].data = data,
                                     ![p].result = Lookup(data, WrapIndex(data),
                                                          proc[p].indicator, proc[p].curr_date),
                                     ![p].pc = "done"]
       ELSE proc' = [proc EXCEPT ![p].result = <<"raise", "Exception: Stockstats fail">>,
                                 ![p].pc = "done"]
    /\ UNCHANGED <<today, fs, writes, hist, routerVars, indVars, aggVars, fetchVars, redditVars>>

\* The request has returned or raised to its caller.
CacheReturn(p) ==
    /\ proc[p].pc = "done"
    /\ proc[p].caller = "direct"
    /\ hist' = IF proc[p].online
               THEN [valid |-> TRUE, data_file |-> proc[p].data_file,
                     series |-> proc[p].series, fetched |-> proc[p].fetched,
                     failed |-> proc[p].failed]
               ELSE hist
    /\ proc' = [proc EXCEPT ![p] = IdleProc]
    /\ UNCHANGED <<today, fs, writes, routerVars, indVars, aggVars, fetchVars, redditVars>>

\* The day ends.
Midnight ==
    /\ today < MaxDay
    /\ today' = today + 1
    /\ UNCHANGED <<fs, writes, proc, hist, routerVars, indVars, aggVars, fetchVars, redditVars>>

\* The process of a request is killed; what it wrote to the file stays.
Crash(p) ==
    /\ proc[p].pc \notin {"idle", "done"}
    /\ proc[p].caller = "direct"
    /\ proc' = [proc EXCEPT ![p] = IdleProc]
    /\ UNCHANGED <<today, fs, writes, hist, routerVars, indVars, aggVars, fetchVars, redditVars>>

NextCacheSeq ==
    \/ \E symbol \in Symbols, indicator \in Indicators, curr_date \in CurrDates, online \in BOOLEAN :
           CacheStart("p1", symbol, indicator, curr_date, online)
    \/ CacheExists("p1")
    \/ CacheRead("p1")
    \/ \E ok \in BOOLEAN : CacheFetch("p1", ok)
    \/ CacheWriteOpen("p1")
    \/ CacheWriteFlush("p1")
    \/ CacheLookup("p1")
    \/ OfflineLookup("p1")
    \/ CacheReturn("p1")
    \/ Midnight

\* One request after the other, each of which may be killed at any point.
NextCacheCrash ==
    \/ NextCacheSeq
    \/ Crash("p1")

\* Concurrent online requests for one indicator and date.
NextCacheConc ==
    \/ \E p \in Procs, symbol \in Symbols : CacheStart(p, symbol, "close", <<"1", "-", "8">>, TRUE)
    \/ \E p \in Procs : CacheExists(p)
    \/ \E p \in Procs : CacheRead(p)
    \/ \E p \in Procs, ok \in BOOLEAN : CacheFetch(p, ok)
    \/ \E p \in Procs : CacheWriteOpen(p)
    \/ \E p \in Procs : CacheWriteFlush(p)
    \/ \E p \in Procs : CacheLookup(p)
    \/ \E p \in Procs : CacheReturn(p)

\* ===================================================================
\*  The indicator entry points (dataflows/interface.py, lines 424-586)
\* ===================================================================

\* The names get_stock_stats_indicators_window describes (13 in the source,
\* "close_50_sma" and the like); "close" is a column stockstats knows but the
\* window lookup does not describe.
best_ind_params == {"close_2_sma"}

LookBackDays == {0, 1, 2}

\* What datetime.strptime(s, "%Y-%m-%d") accepts: the date alone.
StrptimeAccepts(s) == Len(s) = 3 /\ IsDigit(s[1]) /\ s[2] = "-" /\ IsDigit(s[3])

\* datetime.strptime(s, "%Y-%m-%d")
strptime(s) == 10 * DigitVal(s[1]) + DigitVal(s[3])

\* str(indicator_value): the digits of the value, or the sentinel's text.
str(call, curr_date) ==
    IF DatesParse(call.data)
       /\ MatchingRows(SetDateIndex(call.data).rows, to_datetime(curr_date)) # <<>>
    THEN FormatInt(call.result[2])
    ELSE <<"N/A">>

\* Mutant: the error of get_stock_stats leaves get_stockstats_indicator.
IndicatorValueOfRaising(call, curr_date) ==
    IF call.result[1] = "raise" THEN call.result ELSE <<"return", str(call, curr_date)>>

\* Lines 577-586: any error of get_stock_stats is printed and "" is returned.
IndicatorValueOf(call, curr_date) ==
    IF call.result[1] = "raise" THEN <<"return", <<>> >> ELSE <<"return", str(call, curr_date)>>

UnsupportedIndicator ==
    <<"raise", "ValueError: Indicator is not supported. Please choose from", best_ind_params>>

IdleInd ==
    [pc |-> "idle", entry |-> None, symbol |-> None, indicator |-> None, online |-> FALSE,
     cur |-> 0, before |-> 0, dates_in_df |-> {}, ind_string |-> <<>>, result |-> NoResult,
     keys |-> {}, days |-> {}, fetches |-> 0]

InitInd == ind = IdleInd

\* The process the get_stock_stats call of an entry point runs in.
IndProc == "p1"

\* get_stockstats_indicator, lines 560-575: the date is parsed and formatted,
\* and get_stock_stats is called; it runs in the steps of the cache section.
SingleLookup(symbol, indicator, curr_date, online) ==
    /\ ind.pc = "idle"
    /\ proc[IndProc].pc = "idle"
    /\ LET rec == [IdleInd EXCEPT !.entry = "single", !.symbol = symbol,
                                  !.indicator = indicator, !.online = online]
       IN  IF ~StrptimeAccepts(curr_date)
           THEN /\ ind' = [rec EXCEPT !.pc = "done", !.result = <<"raise", "ValueError">>]
                /\ UNCHANGED proc
           ELSE /\ ind' = [rec EXCEPT !.pc = "call", !.cur = strptime(curr_date)]
                /\ proc' = [proc EXCEPT ![IndProc] =
                               Request(symbol, indicator, strftime(strptime(curr_date)),
                                       online, "indicator")]
    /\ UNCHANGED <<today, fs, writes, hist, routerVars, aggVars, fetchVars, redditVars>>

\* The dates of the offline file: data["Date"].astype(str).str[:10]
DatesInDf(symbol) ==
    LET data == read_csv(OfflineFiles[symbol])
    IN  {strftime(to_datetime(data.rows[i].date).day) : i \in DOMAIN data.rows}

\* get_stock_stats_indicators_window, lines 424-526: the check of the
\* indicator, the dates, and in offline mode the price file.
WindowStart(symbol, indicator, curr_date, look_back_days, online) ==
    /\ ind.pc = "idle"
    /\ LET rec == [IdleInd EXCEPT !.entry = "window", !.symbol = symbol,
                                  !.indicator = indicator, !.online = online]
       IN  IF indicator \notin best_ind_params
           THEN ind' = [rec EXCEPT !.pc = "done", !.result = UnsupportedIndicator]
           ELSE IF ~StrptimeAccepts(curr_date)
           THEN ind' = [rec EXCEPT !.pc = "done", !.result = <<"raise", "ValueError">>]
           ELSE IF ~online /\ symbol \notin DOMAIN OfflineFiles
           THEN ind' = [rec EXCEPT !.pc = "done", !.result = <<"raise", "FileNotFoundError">>]
           ELSE ind' = [rec EXCEPT !.pc = "loop",
                                   !.cur = strptime(curr_date),
                                   !.before = strptime(curr_date) - look_back_days,
                                   !.dates_in_df = IF online THEN {} ELSE DatesInDf(symbol)]
    /\ UNCHANGED <<cacheVars, routerVars, aggVars, fetchVars, redditVars>>

\* Lines 527-555: the head of a turn of the while loop, which calls
\* get_stockstats_indicator for the date or skips it, or the return after the
\* last turn.
WindowStep ==
    /\ ind.pc = "loop"
    /\ IF ind.cur >= ind.before
       THEN IF ind.online \/ strftime(ind.cur) \in ind.dates_in_df
            THEN /\ proc[IndProc].pc = "idle"
                 /\ ind' = [ind EXCEPT
                              !.pc = "call",
                              !.days = @ \cup {today}]
                 /\ proc' = [proc EXCEPT ![IndProc] =
                                Request(ind.symbol, ind.indicator, strftime(ind.cur),
                                        ind.online, "indicator")]
            ELSE /\ ind' = [ind EXCEPT !.cur = @ - 1]
                 /\ UNCHANGED proc
       ELSE /\ ind' = [ind EXCEPT !.pc = "done",
                                  !.result = <<"return", strftime(ind.before), ind.ind_string>>]
            /\ UNCHANGED proc
    /\ UNCHANGED <<today, fs, writes, hist, routerVars, aggVars, fetchVars, redditVars>>

\* interface.py lines 577-586: get_stock_stats has returned or raised to
\* get_stockstats_indicator, which returns the value as a string; the window
\* lookup adds it to its lines and goes on with the date before.
AfterCall ==
    /\ ind.pc = "call"
    /\ proc[IndProc].pc = "done"
    /\ proc[IndProc].caller = "indicator"
    /\ LET call == proc[IndProc]
           value == IndicatorValueOf(call, strftime(ind.cur))
       IN  IF ind.entry = "single"
           THEN ind' = [ind EXCEPT !.pc = "done", !.result = value]
           ELSE ind' = [ind EXCEPT
                          !.pc = "loop",
                          !.ind_string = Append(@, <<strftime(ind.cur), value[2]>>),
                          !.cur = @ - 1,
                          !.keys = IF ind.online THEN @ \cup {call.data_file} ELSE @,
                          !.fetches = IF call.fetched \/ call.failed THEN @ + 1 ELSE @]
    /\ proc' = [proc EXCEPT ![IndProc] = IdleProc]
    /\ UNCHANGED <<today, fs, writes, hist, routerVars, aggVars, fetchVars, redditVars>>

\* The entry point has returned or raised.
IndReturn ==
    /\ ind.pc = "done"
    /\ ind' = IdleInd
    /\ UNCHANGED <<cacheVars, routerVars, aggVars, fetchVars, redditVars>>

\* The process of the entry point is killed, inside get_stock_stats or
\* outside; what it wrote to the cache file stays.
IndCrash ==
    /\ ind.pc \notin {"idle", "done"}
    /\ ind' = IdleInd
    /\ proc' = IF proc[IndProc].caller = "indicator"
               THEN [proc EXCEPT ![IndProc] = IdleProc] ELSE proc
    /\ UNCHANGED <<today, fs, writes, hist, routerVars, aggVars, fetchVars, redditVars>>

\* Calls of the entry points one after the other, the get_stock_stats call
\* of each running step by step.
NextIndicator ==
    \/ \E symbol \in Symbols, indicator \in Indicators, curr_date \in CurrDates,
          online \in BOOLEAN :
           SingleLookup(symbol, indicator, curr_date, online)
    \/ \E symbol \in Symbols, indicator \in Indicators, curr_date \in CurrDates,
          look_back_days \in LookBackDays, online \in BOOLEAN :
           WindowStart(symbol, indicator, curr_date, look_back_days, online)
    \/ WindowStep
    \/ CacheExists(IndProc)
    \/ CacheRead(IndProc)
    \/ \E ok \in BOOLEAN : CacheFetch(IndProc, ok)
    \/ CacheWriteOpen(IndProc)
    \/ CacheWriteFlush(IndProc)
    \/ CacheLookup(IndProc)
    \/ OfflineLookup(IndProc)
    \/ AfterCall
    \/ IndReturn
    \/ Midnight

\* Online calls of the entry points for one symbol on one day, next to
\* another caller of get_stock_stats on the same cache directory; the entry
\* point may be killed at any point.
NextIndicatorConc ==
    \/ SingleLookup("S1", "close", <<"1", "-", "8">>, TRUE)
    \/ \E look_back_days \in LookBackDays :
           WindowStart("S1", "close_2_sma", <<"1", "-", "9">>, look_back_days, TRUE)
    \/ WindowStep
    \/ \E p \in Procs : CacheExists(p)
    \/ \E p \in Procs : CacheRead(p)
    \/ \E p \in Procs, ok \in BOOLEAN : CacheFetch(p, ok)
    \/ \E p \in Procs : CacheWriteOpen(p)
    \/ \E p \in Procs : CacheWriteFlush(p)
    \/ \E p \in Procs : CacheLookup(p)
    \/ AfterCall
    \/ IndReturn
    \/ IndCrash
    \/ \E p \in Procs \ {IndProc} : CacheStart(p, "S1", "close", <<"1", "-", "8">>, TRUE)
    \/ \E p \in Procs \ {IndProc} : CacheReturn(p)

\* ===================================================================
\*  The Site-Search Aggregator (dataflows/interface.py, lines 932-1136)
\* ===================================================================

\* SITES, lines 949-960 (ten in the source): name and category.
SITES ==
    << [name |-> "guba", category |-> "social"],
       [name |-> "zhihu", category |-> "social"],
       [name |-> "sina", category |-> "news"] >>

\* The curr_date arguments: a date, and a string strptime rejects.
AsOfDates == {<<"2", "-", "0">>, <<"2", "0">>}

\* timedelta(days=7)
WindowDays == 7

\* A JSON null, and a key the object does not have.
Null == <<"null">>
Missing == <<"missing">>

\* A url Python takes for false: null, or the empty string.
NoUrl == ""

Item(url, datetime_local, title) ==
    [url |-> url, datetime_local |-> datetime_local, title_or_snippet |-> title]

\* The items a site may return: two with one url, a date without a time, a
\* null date, no date, no url.
ItemCatalogue ==
    { Item("u1", <<"1", "-", "5", " ", "1">>, "t1"),
      Item("u1", <<"0", "-", "4", " ", "2">>, "t2"),
      Item("u2", <<"1", "-", "6">>, "t1"),
      Item("u3", Null, "t1"),
      Item("u4", Missing, "t1"),
      Item(NoUrl, <<"1", "-", "5", " ", "1">>, "t1") }

ItemLists ==
    {<<>>} \cup {<<a>> : a \in ItemCatalogue} \cup {<<a, b>> : a, b \in ItemCatalogue}

\* What the remote call of a site can come to: an exception, no output
\* text, text that is not JSON, JSON that is an array (its elements in
\* items), or a JSON object with items and perhaps platform, category and
\* found_count of its own.
Response(kind, items, platform, category, found_count) ==
    [kind |-> kind, items |-> items, platform |-> platform, category |-> category,
     found_count |-> found_count, error |-> <<>>]

SiteResponses ==
    {Response(k, <<>>, <<>>, <<>>, <<>>) : k \in {"raise", "empty", "bad_json", "array"}}
    \cup {Response("array", <<Item("u1", <<"1", "-", "5", " ", "1">>, "t1")>>,
                   <<>>, <<>>, <<>>)}
    \cup {Response("object", items, <<>>, <<>>, <<>>) : items \in ItemLists}
    \cup {Response("object", <<Item("u5", <<"1", "-", "9", " ", "1">>, "t1"),
                                Item("u6", <<"1", "-", "3", " ", "1">>, "t2")>>,
                   <<"P">>, <<"C">>, <<3>>)}

NoneValue ==
    [kind |-> "None", items |-> <<>>, platform |-> <<>>, category |-> <<>>,
     found_count |-> <<>>, error |-> <<>>]

\* search_one_site, lines 1024-1067: None after an exception or without
\* output text, an empty result with an error marker for text that is not
\* JSON, else what json.loads made of the text.
search_one_site(site, resp) ==
    CASE resp.kind \in {"raise", "empty"} -> NoneValue
      [] resp.kind = "bad_json" ->
            [kind |-> "object", items |-> <<>>, platform |-> <<site.name>>,
             category |-> <<site.category>>, found_count |-> <<0>>,
             error |-> <<"Failed to parse response">>]
      [] OTHER -> resp

\* `if result:` (line 1080): None and the empty array are false; the objects
\* here have a key and are true.
bool(result) ==
    CASE result.kind = "None"  -> FALSE
      [] result.kind = "array" -> result.items # <<>>
      [] OTHER                 -> TRUE

\* dict.get(key, default) of a key that holds a one-element tuple when present
Get(field, default) == IF field = <<>> THEN default ELSE field[1]

\* Lines 1083-1086: every item of the result gets platform and category.
Tag(item, site, result) ==
    [url |-> item.url, datetime_local |-> item.datetime_local,
     title_or_snippet |-> item.title_or_snippet,
     platform |-> Get(result.platform, site.name),
     category |-> Get(result.category, site.category)]

TagAll(items, site, result) == [i \in DOMAIN items |-> Tag(items[i], site, result)]

\* Mutant: the last item of every url is kept.
RECURSIVE DedupByUrlLast(_, _)
DedupByUrlLast(items, seen_urls) ==
    IF items = <<>> THEN <<>>
    ELSE LET item == items[Len(items)]
             front == SubSeq(items, 1, Len(items) - 1)
         IN  IF item.url # NoUrl /\ item.url \notin seen_urls
             THEN DedupByUrlLast(front, seen_urls \cup {item.url}) \o <<item>>
             ELSE DedupByUrlLast(front, seen_urls)

\* Lines 1102-1108: the first item of every url, items without url dropped.
RECURSIVE DedupByUrl(_, _)
DedupByUrl(items, seen_urls) ==
    IF items = <<>> THEN <<>>
    ELSE LET item == Head(items)
         IN  IF item.url # NoUrl /\ item.url \notin seen_urls
             THEN <<item>> \o DedupByUrl(Tail(items), seen_urls \cup {item.url})
             ELSE DedupByUrl(Tail(items), seen_urls)

\* The code point of a character of a date string.
CharCode(c) ==
    CASE c = " " -> 32
      [] c = "-" -> 45
      [] OTHER -> 48 + DigitVal(c)

\* a < b for Python strings
RECURSIVE StrLess(_, _)
StrLess(a, b) ==
    IF b = <<>> THEN FALSE
    ELSE IF a = <<>> THEN TRUE
    ELSE IF CharCode(a[1]) # CharCode(b[1]) THEN CharCode(a[1]) < CharCode(b[1])
    ELSE StrLess(Tail(a), Tail(b))

\* Line 1111: x.get("datetime_local", "")
SortKey(item) == IF item.datetime_local = Missing THEN <<>> ELSE item.datetime_local

\* Mutant: the items stay in the order of the sites.
SortByDatetimeNot(items) == items

\* key(a) < key(b) raises TypeError: None is not comparable.
LtRaises(a, b) == SortKey(a) = Null \/ SortKey(b) = Null

\* key(a) < key(b), for keys that are strings
Lt(a, b) == StrLess(SortKey(a), SortKey(b))

\* list.sort's count_run on a list of two or more items: the length of the
\* run the list begins with, whether it descends, and whether a comparison
\* raised. i is the next position to compare with the one before.
RECURSIVE RunFrom(_, _, _)
RunFrom(items, descending, i) ==
    IF i > Len(items)
    THEN [n |-> Len(items), descending |-> descending, raised |-> FALSE]
    ELSE IF LtRaises(items[i], items[i - 1])
    THEN [n |-> i - 1, descending |-> descending, raised |-> TRUE]
    ELSE IF Lt(items[i], items[i - 1]) = descending
    THEN RunFrom(items, descending, i + 1)
    ELSE [n |-> i - 1, descending |-> descending, raised |-> FALSE]

count_run(items) ==
    IF LtRaises(items[2], items[1])
    THEN [n |-> 1, descending |-> FALSE, raised |-> TRUE]
    ELSE RunFrom(items, Lt(items[2], items[1]), 3)

Reverse(items) == [i \in DOMAIN items |-> items[Len(items) + 1 - i]]

\* list.sort's binary search for the place of pivot among the sorted items
\* before it: the number of items that stay in front of it, or -1 when a
\* comparison raised.
RECURSIVE Search(_, _, _, _)
Search(items, pivot, l, r) ==
    IF l >= r THEN l
    ELSE LET p == l + ((r - l) \div 2)
         IN  IF LtRaises(pivot, items[p + 1]) THEN 0 - 1
             ELSE IF Lt(pivot, items[p + 1]) THEN Search(items, pivot, l, p)
             ELSE Search(items, pivot, p + 1, r)

\* list.sort's binarysort: the items from position start on are inserted one
\* by one into the sorted items before them; a comparison that raises leaves
\* the list as the insertions before it made it.
RECURSIVE binarysort(_, _)
binarysort(items, start) ==
    IF start > Len(items) THEN [items |-> items, raised |-> FALSE]
    ELSE LET l == Search(items, items[start], 0, start - 1)
         IN  IF l < 0 THEN [items |-> items, raised |-> TRUE]
             ELSE binarysort(SubSeq(items, 1, l) \o <<items[start]>>
                                 \o SubSeq(items, l + 1, start - 1)
                                 \o SubSeq(items, start + 1, Len(items)),
                             start + 1)

\* Line 1111, unique_items.sort(key=...), as CPython sorts a list of fewer
\* than 64 items: the run at the head of the list is found (and reversed when
\* it descends), and the rest is inserted into it. The list as the sort
\* leaves it, and whether it raised TypeError.
sort(items) ==
    IF Len(items) < 2 THEN [items |-> items, raised |-> FALSE]
    ELSE LET run == count_run(items)
         IN  IF run.raised THEN [items |-> items, raised |-> TRUE]
             ELSE binarysort(IF run.descending
                             THEN Reverse(SubSeq(items, 1, run.n))
                                      \o SubSeq(items, run.n + 1, Len(items))
                             ELSE items,
                             run.n + 1)

\* The list after a sort.
SortByDatetime(items) == sort(items).items

\* list.sort compares the keys of two or more items, and None is not
\* comparable.
SortRaises(items) == sort(items).raised

\* Mutant: the total counts the items left after the deduplication.
FinalResultCountsUnique(items, raw, window, details) ==
    [items |-> items,
     summary |-> [total_items_found |-> Len(items),
                  unique_items |-> Len(items),
                  sites_searched |-> Len(SITES),
                  date_range |-> <<window.start, "to", window.end>>,
                  search_details |-> details]]

\* Lines 1114-1123.
FinalResult(items, raw, window, details) ==
    [items |-> items,
     summary |-> [total_items_found |-> Len(raw),
                  unique_items |-> Len(items),
                  sites_searched |-> Len(SITES),
                  date_range |-> <<window.start, "to", window.end>>,
                  search_details |-> details]]

\* Lines 1133-1136: the function returns None.
ReturnedNone == <<"return", "None">>

ReturnedJson(final) == <<"return", "json", final>>

NoWindow == [start |-> <<>>, end |-> <<>>]

InitAgg ==
    /\ apc = "idle"
    /\ awindow = NoWindow
    /\ site_idx = 1
    /\ responses = <<>>
    /\ all_items = <<>>
    /\ search_summary = <<>>
    /\ unique_items = <<>>
    /\ final_result = NoResult
    /\ printed = <<>>

\* Lines 945-946: what get_config() and OpenAI(base_url=config["backend_url"])
\* come to: the client, or the error of a configuration without backend_url
\* or of a missing API key.
ClientOutcomes == {"client", "KeyError", "OpenAIError"}

\* Lines 945-968 and 1069-1071: the client and the window of the call. The
\* client is made before the try, so its error leaves the function; a date
\* strptime rejects ends the call in the handler of lines 1133-1136.
AggStart(curr_date, client) ==
    /\ apc = "idle"
    /\ IF client # "client"
       THEN /\ apc' = "done"
            /\ final_result' = <<"raise", client>>
            /\ UNCHANGED <<awindow, printed>>
       ELSE IF StrptimeAccepts(curr_date)
       THEN /\ apc' = "loop"
            /\ awindow' = [start |-> strftime(strptime(curr_date) - WindowDays),
                           end |-> strftime(strptime(curr_date))]
            /\ UNCHANGED <<final_result, printed>>
       ELSE /\ apc' = "done"
            /\ final_result' = ReturnedNone
            /\ printed' = Append(printed, "Error in get_stock_news_openai: ValueError")
            /\ UNCHANGED awindow
    /\ UNCHANGED <<site_idx, responses, all_items, search_summary, unique_items>>
    /\ UNCHANGED <<routerVars, cacheVars, indVars, fetchVars, redditVars>>

\* Lines 1076-1078 and 1028-1046: the request for the next site is sent.
AggCall ==
    /\ apc = "loop"
    /\ apc' = "waiting"
    /\ UNCHANGED <<awindow, site_idx, responses, all_items, search_summary, unique_items,
                   final_result, printed>>
    /\ UNCHANGED <<routerVars, cacheVars, indVars, fetchVars, redditVars>>

\* Mutant: the loop ends with the first site that has no result.
AfterSiteStopsAtFailure(result) ==
    IF ~bool(result) THEN "merge"
    ELSE IF site_idx = Len(SITES) THEN "merge" ELSE "loop"

\* Mutant: the merge starts after the first site.
AfterSiteMergesEarly(result) == "merge"

\* Lines 1076: the for loop goes to the next site, and past the last site on.
AfterSite(result) == IF site_idx = Len(SITES) THEN "merge" ELSE "loop"

\* Lines 1048-1067 and 1078-1099: the remote call of the site ends, and the
\* loop takes in what search_one_site made of it.
AggRespond(resp) ==
    /\ apc = "waiting"
    /\ LET site == SITES[site_idx]
           result == search_one_site(site, resp)
       IN  /\ responses' = Append(responses, resp)
           /\ IF bool(result) /\ result.kind = "array"
              THEN /\ apc' = "done"
                   /\ final_result' = ReturnedNone
                   /\ printed' = Append(printed,
                                        "Error in get_stock_news_openai: AttributeError")
                   /\ UNCHANGED <<site_idx, all_items, search_summary>>
              ELSE /\ apc' = AfterSite(result)
                   /\ site_idx' = site_idx + 1
                   /\ all_items' = IF ~bool(result) THEN all_items
                                   ELSE all_items \o TagAll(result.items, site, result)
                   /\ search_summary' =
                          Append(search_summary,
                                 [site |-> site.name,
                                  found_count |-> IF ~bool(result) THEN 0
                                                  ELSE Get(result.found_count,
                                                           Len(result.items))])
                   /\ printed' = IF resp.kind = "raise"
                                 THEN Append(printed, "Error searching site")
                                 ELSE printed
                   /\ UNCHANGED final_result
    /\ UNCHANGED <<awindow, unique_items>>
    /\ UNCHANGED <<routerVars, cacheVars, indVars, fetchVars, redditVars>>

\* Lines 1101-1131: the items are deduplicated and sorted, and the result
\* with its summary is returned; a sort that raises leaves the list partly
\* sorted and ends the call in the handler of lines 1133-1136.
AggMerge ==
    /\ apc = "merge"
    /\ LET unique == DedupByUrl(all_items, {})
       IN  IF SortRaises(unique)
           THEN /\ unique_items' = SortByDatetime(unique)
                /\ final_result' = ReturnedNone
                /\ printed' = Append(printed, "Error in get_stock_news_openai: TypeError")
           ELSE /\ unique_items' = SortByDatetime(unique)
                /\ final_result' = ReturnedJson(FinalResult(unique_items', all_items, awindow,
                                                            search_summary))
                /\ UNCHANGED printed
    /\ apc' = "done"
    /\ UNCHANGED <<awindow, site_idx, responses, all_items, search_summary>>
    /\ UNCHANGED <<routerVars, cacheVars, indVars, fetchVars, redditVars>>

\* The call has returned.
AggReturn ==
    /\ apc = "done"
    /\ apc' = "idle"
    /\ awindow' = NoWindow
    /\ site_idx' = 1
    /\ responses' = <<>>
    /\ all_items' = <<>>
    /\ search_summary' = <<>>
    /\ unique_items' = <<>>
    /\ final_result' = NoResult
    /\ printed' = <<>>
    /\ UNCHANGED <<routerVars, cacheVars, indVars, fetchVars, redditVars>>

NextAggregator ==
    \/ \E curr_date \in AsOfDates, client \in ClientOutcomes : AggStart(curr_date, client)
    \/ AggCall
    \/ \E resp \in SiteResponses : AggRespond(resp)
    \/ AggMerge
    \/ AggReturn

\* ===================================================================
\* The bulk fetcher: TushareFetcher.fetch_all_daily_data
\* ===================================================================

\* The stock list of the runs, given in an order that is not the sorted one.
StockList == <<"B", "A", "C">>

\* The stock codes in the order sorted() puts them.
CodeOrder == <<"A", "B", "C">>

StockCodes == {StockList[i] : i \in DOMAIN StockList}

\* What self.pro.daily does for one stock: rows, no rows, or an exception.
FetchOutcomes == {"data", "empty", "error"}

\* sorted(completed_stocks)
Sorted(codes) == SelectSeq(CodeOrder, LAMBDA c : c \in codes)

\* A file: whether it exists and its lines.
NoFile == [exists |-> FALSE, lines |-> <<>>]

File(lines) == [exists |-> TRUE, lines |-> lines]

\* _load_progress: the set of the lines of the file, the empty set without one.
\* (A line is a stock code; none is blank.)
_load_progress(file) ==
    IF file.exists THEN {file.lines[i] : i \in DOMAIN file.lines} ELSE {}

\* fetch_daily_data: the frame of self.pro.daily, an empty frame when it raised.
fetch_daily_data(outcome) ==
    IF outcome = "error" THEN "empty" ELSE outcome

\* What the runs did: the outcome of each code's latest remote fetch, the
\* codes a closed progress file ever held, the codes fetched although a
\* closed progress file held them, and for the current run the set it loaded
\* and the codes it fetched, in order.
NoLog ==
    [last_fetch    |-> [c \in StockCodes |-> "none"],
     ever_recorded |-> {},
     refetched     |-> {},
     loaded        |-> {},
     run_fetched   |-> <<>>]

InitFetcher ==
    /\ fpc = "idle"
    /\ fidx = 1
    /\ completed_stocks = {}
    /\ fetched_df = "none"
    /\ progress_file = NoFile
    /\ fbuf = <<>>
    /\ daily_files = {}
    /\ fetch_log = NoLog

\* fetch_all_daily_data is called: it loads the progress file (lines 152-156).
FetchAllStart ==
    /\ fpc = "idle"
    /\ completed_stocks' = _load_progress(progress_file)
    /\ fidx' = 1
    /\ fetched_df' = "none"
    /\ fpc' = "loop"
    /\ fetch_log' = [fetch_log EXCEPT !.loaded = _load_progress(progress_file),
                                      !.run_fetched = <<>>]
    /\ UNCHANGED <<progress_file, fbuf, daily_files>>
    /\ UNCHANGED <<routerVars, cacheVars, indVars, aggVars, redditVars>>

\* The head of the for loop (lines 159-162): a completed stock is skipped.
FetchLoop ==
    /\ fpc = "loop"
    /\ IF fidx > Len(StockList)
       THEN /\ fpc' = "idle"
            /\ fidx' = fidx
       ELSE IF StockList[fidx] \in completed_stocks
       THEN /\ fpc' = "loop"
            /\ fidx' = fidx + 1
       ELSE /\ fpc' = "fetch"
            /\ fidx' = fidx
    /\ UNCHANGED <<completed_stocks, fetched_df, progress_file, fbuf, daily_files, fetch_log>>
    /\ UNCHANGED <<routerVars, cacheVars, indVars, aggVars, redditVars>>

\* df = self.fetch_daily_data(ts_code, ...) (line 166).
FetchDaily(outcome) ==
    /\ fpc = "fetch"
    /\ fetched_df' = fetch_daily_data(outcome)
    /\ fpc' = "save"
    /\ LET ts_code == StockList[fidx] IN
       fetch_log' = [fetch_log EXCEPT
           !.last_fetch[ts_code] = outcome,
           !.refetched = IF ts_code \in fetch_log.ever_recorded
                         THEN @ \cup {ts_code} ELSE @,
           !.run_fetched = Append(@, ts_code)]
    /\ UNCHANGED <<fidx, completed_stocks, progress_file, fbuf, daily_files>>
    /\ UNCHANGED <<routerVars, cacheVars, indVars, aggVars, redditVars>>

\* if not df.empty: df.to_csv(...) (lines 168-174).
FetchSaveCsv ==
    /\ fpc = "save"
    /\ daily_files' = IF fetched_df # "empty" THEN daily_files \cup {StockList[fidx]}
                      ELSE daily_files
    /\ fpc' = "progress"
    /\ UNCHANGED <<fidx, completed_stocks, fetched_df, progress_file, fbuf, fetch_log>>
    /\ UNCHANGED <<routerVars, cacheVars, indVars, aggVars, redditVars>>

\* completed_stocks.add(ts_code), and _save_progress opens the progress file
\* for writing, which empties it (lines 177-178, 196).
ProgressOpen ==
    /\ fpc = "progress"
    /\ completed_stocks' = completed_stocks \cup {StockList[fidx]}
    /\ progress_file' = File(<<>>)
    /\ fbuf' = <<>>
    /\ fpc' = "writing"
    /\ UNCHANGED <<fidx, fetched_df, daily_files, fetch_log>>
    /\ UNCHANGED <<routerVars, cacheVars, indVars, aggVars, redditVars>>

\* f.write of the next code of sorted(completed_stocks) (lines 197-198).
ProgressWrite ==
    /\ fpc = "writing"
    /\ Len(fbuf) < Len(Sorted(completed_stocks))
    /\ fbuf' = Append(fbuf, Sorted(completed_stocks)[Len(fbuf) + 1])
    /\ UNCHANGED <<fpc, fidx, completed_stocks, fetched_df, progress_file, daily_files, fetch_log>>
    /\ UNCHANGED <<routerVars, cacheVars, indVars, aggVars, redditVars>>

\* The with block of _save_progress ends: the file is closed with every line
\* in it, and the loop goes on to the next stock.
ProgressClose ==
    /\ fpc = "writing"
    /\ Len(fbuf) = Len(Sorted(completed_stocks))
    /\ progress_file' = File(fbuf)
    /\ fbuf' = <<>>
    /\ fetch_log' = [fetch_log EXCEPT
           !.ever_recorded = @ \cup _load_progress(File(fbuf))]
    /\ fidx' = fidx + 1
    /\ fetched_df' = "none"
    /\ fpc' = "loop"
    /\ UNCHANGED <<completed_stocks, daily_files>>
    /\ UNCHANGED <<routerVars, cacheVars, indVars, aggVars, redditVars>>

\* The run is interrupted: its locals are gone, the files stay as they are.
\* Inside _save_progress the lines written so far reach the file when the
\* interrupt is an exception (the with block closes it) and are lost with
\* the process when it is killed.
FetchInterrupt(flushed) ==
    /\ fpc # "idle"
    /\ fpc' = "idle"
    /\ fidx' = 1
    /\ completed_stocks' = {}
    /\ fetched_df' = "none"
    /\ fbuf' = <<>>
    /\ IF fpc = "writing" /\ flushed
       THEN /\ progress_file' = File(fbuf)
            /\ fetch_log' = [fetch_log EXCEPT
                   !.ever_recorded = @ \cup _load_progress(File(fbuf))]
       ELSE UNCHANGED <<progress_file, fetch_log>>
    /\ UNCHANGED daily_files
    /\ UNCHANGED <<routerVars, cacheVars, indVars, aggVars, redditVars>>

NextFetcher ==
    \/ FetchAllStart
    \/ FetchLoop
    \/ \E outcome \in FetchOutcomes : FetchDaily(outcome)
    \/ FetchSaveCsv
    \/ ProgressOpen
    \/ ProgressWrite
    \/ ProgressClose
    \/ \E flushed \in BOOLEAN : FetchInterrupt(flushed)

\* ===================================================================
\* The Reddit search: RedditStockDownloader.search_posts_by_date_range
\* ===================================================================

\* Times are counted in ticks, TicksPerSecond of them to a second, so that a
\* datetime may fall between two whole seconds.
TicksPerSecond == 2

\* The latest whole second of a datetime or of a post.
MaxSecond == 2

Times == 0 .. (MaxSecond * TicksPerSecond)

\* int(x) of a time in seconds: its whole seconds.
int(ticks) == ticks \div TicksPerSecond

\* The listings iterated, in this order (line 93).
search_methods == <<"hot", "new", "top">>

\* str.lower() on the characters used.
lower_char(c) ==
    CASE c = "T" -> "t"
      [] c = "S" -> "s"
      [] OTHER   -> c

lower(s) == [i \in DOMAIN s |-> lower_char(s[i])]

\* needle in haystack, for strings
In(needle, haystack) ==
    \E i \in 0 .. (Len(haystack) - Len(needle)) :
        SubSeq(haystack, i + 1, i + Len(needle)) = needle

\* query=None
NoQuery == <<"None">>

Queries == {NoQuery, <<>>, <<"T", "s">>}

\* `if query:`
Truthy(query) == query # NoQuery /\ query # <<>>

\* A submission as the Reddit client hands it over; created_utc in ticks.
Submission(id, title, selftext, created_utc) ==
    [id |-> id, title |-> title, selftext |-> selftext, created_utc |-> created_utc]

Submissions ==
    {Submission("p1", <<"T", "S", "x">>, <<>>, 1 * TicksPerSecond),
     Submission("p2", <<"a">>, <<"t", "s">>, 1 * TicksPerSecond + 1),
     Submission("p3", <<"a", "b">>, <<"s", "t">>, MaxSecond * TicksPerSecond)}

\* What a listing may hold: up to two submissions.
Listings ==
    {<<>>} \cup {<<s>> : s \in Submissions}
           \cup {<<s, t>> : s \in {u \in Submissions : u.id = "p1"}, t \in Submissions}

Subreddits == {"stocks"}

\* The post_data dictionary (lines 112-122); created_utc in whole seconds.
post_data(submission, subreddit_name) ==
    [created_utc |-> int(submission.created_utc),
     id          |-> submission.id,
     title       |-> submission.title,
     selftext    |-> submission.selftext,
     subreddit   |-> subreddit_name]

\* The test of the inner loop (lines 104-110): whether the submission is kept.
Kept(submission, start_timestamp, end_timestamp, query) ==
    /\ start_timestamp * TicksPerSecond <= submission.created_utc
    /\ submission.created_utc <= end_timestamp * TicksPerSecond
    /\ Truthy(query) =>
           \/ In(lower(query), lower(submission.title))
           \/ In(lower(query), lower(submission.selftext))

\* The posts the inner loop appends for one listing.
RECURSIVE ScanListing(_, _, _, _, _)
ScanListing(submissions, start_timestamp, end_timestamp, query, subreddit_name) ==
    IF submissions = <<>> THEN <<>>
    ELSE (IF Kept(Head(submissions), start_timestamp, end_timestamp, query)
          THEN <<post_data(Head(submissions), subreddit_name)>>
          ELSE <<>>)
         \o ScanListing(Tail(submissions), start_timestamp, end_timestamp, query,
                        subreddit_name)

IdleReddit ==
    [pc              |-> "idle",
     subreddit_name  |-> "",
     start_date      |-> 0,
     end_date        |-> 0,
     query           |-> NoQuery,
     start_timestamp |-> 0,
     end_timestamp   |-> 0,
     method          |-> 1,
     listings        |-> <<>>,
     posts           |-> <<>>]

InitReddit == rd = IdleReddit

\* search_posts_by_date_range is called (lines 87-93).
RedditSearch(subreddit_name, start_date, end_date, query) ==
    /\ rd.pc = "idle"
    /\ rd' = [pc              |-> "listing",
              subreddit_name  |-> subreddit_name,
              start_date      |-> start_date,
              end_date        |-> end_date,
              query           |-> query,
              start_timestamp |-> int(start_date),
              end_timestamp   |-> int(end_date),
              method          |-> 1,
              listings        |-> <<>>,
              posts           |-> <<>>]
    /\ UNCHANGED <<routerVars, cacheVars, indVars, aggVars, fetchVars>>

\* One round of the outer loop (lines 95-123): the listing of the method is
\* fetched and every submission of it that passes the test is appended.
RedditListing(submissions) ==
    /\ rd.pc = "listing"
    /\ rd.method <= Len(search_methods)
    /\ rd' = [rd EXCEPT
           !.listings = Append(@, submissions),
           !.posts = @ \o ScanListing(submissions, rd.start_timestamp,
                                      rd.end_timestamp, rd.query, rd.subreddit_name),
           !.method = @ + 1,
           !.pc = IF rd.method = Len(search_methods) THEN "done" ELSE "listing"]
    /\ UNCHANGED <<routerVars, cacheVars, indVars, aggVars, fetchVars>>

\* return posts (line 125): the call is over, posts is what it returned.
RedditReturn ==
    /\ rd.pc = "done"
    /\ rd' = [rd EXCEPT !.pc = "idle"]
    /\ UNCHANGED <<routerVars, cacheVars, indVars, aggVars, fetchVars>>

NextReddit ==
    \/ \E subreddit_name \in Subreddits, start_date \in Times, end_date \in Times,
          query \in Queries :
          RedditSearch(subreddit_name, start_date, end_date, query)
    \/ \E submissions \in Listings : RedditListing(submissions)
    \/ RedditReturn

Init == InitRouter /\ InitCache /\ InitInd /\ InitAgg /\ InitFetcher /\ InitReddit

Next ==
    \/ NextRouter
    \/ NextCacheCrash
    \/ NextCacheConc
    \/ NextIndicator
    \/ NextIndicatorConc
    \/ NextAggregator
    \/ NextFetcher
    \/ NextReddit

Spec == Init /\ [][Next]_vars

\* One route_to_vendor call at a time.
SpecRouter == Init /\ [][NextRouter]_vars

\* One get_stock_stats request after the other.
SpecCache == Init /\ [][NextCacheSeq]_vars

\* One request after the other; a request may be killed at any point.
SpecCacheCrash == Init /\ [][NextCacheCrash]_vars

\* Concurrent requests.
SpecCacheConc == Init /\ [][NextCacheConc]_vars

\* One call of an indicator entry point after the other.
SpecIndicator == Init /\ [][NextIndicator]_vars

\* Online calls of the indicator entry points next to another caller of
\* get_stock_stats; the entry point may be killed at any point.
SpecIndicatorConc == Init /\ [][NextIndicatorConc]_vars

\* One get_stock_news_openai call after the other.
SpecAggregator == Init /\ [][NextAggregator]_vars

\* The same, where every step the code takes on its own is taken in the end;
\* the answer of a remote call is the remote side's to give.
SpecAggregatorLive ==
    /\ Init
    /\ [][NextAggregator]_vars
    /\ WF_vars(AggCall)
    /\ WF_vars(AggMerge)
    /\ WF_vars(AggReturn)

\* Runs of fetch_all_daily_data on one data directory, one after the other;
\* a run may be interrupted at any point.
SpecFetcher == Init /\ [][NextFetcher]_vars

\* Calls of search_posts_by_date_range, one after the other.
SpecReddit == Init /\ [][NextReddit]_vars
\* ===================================================================
\*  Properties of the Vendor Router (checked under SpecRouter)
\* ===================================================================

Registered(v) == method \in DOMAIN VENDOR_METHODS /\ v \in Range(VENDOR_METHODS[method])

InvokedVendors == {calls[i][1] : i \in DOMAIN calls}

NoAvailableVendor == <<"raise", "RuntimeError: No available vendor">>

UnsupportedMethod == <<"raise", "ValueError: Method not supported">>

\* C1: when the vendor A at the head of the chain raised the rate-limit error
\* and a later vendor B of the chain was invoked and succeeded, the call
\* returns B's result (A's error does not reach the caller); and after A's
\* rate-limit error the next vendor of the chain, when registered, is invoked.
C1_FallbackReturnsLaterVendor ==
    (rpc = "done" /\ Len(calls) >= 1 /\ Len(fallback_vendors) >= 2
        /\ calls[1] = <<fallback_vendors[1], "rate_limit">>)
    => /\ \A j \in DOMAIN calls :
             (j > 1 /\ calls[j][2] = "ok") => rresult = <<"return", calls[j][1]>>
       /\ Registered(fallback_vendors[2])
             => Len(calls) >= 2 /\ calls[2][1] = fallback_vendors[2]
       /\ rresult # <<"raise", "rate_limit", fallback_vendors[1]>>

C1_Witness ==
    /\ rpc = "done"
    /\ Len(calls) = 2
    /\ calls[1] = <<fallback_vendors[1], "rate_limit">>
    /\ calls[2] = <<fallback_vendors[2], "ok">>
    /\ rresult = <<"return", fallback_vendors[2]>>

\* C2: an invocation that raised an error other than the rate-limit error is
\* the last invocation of the call, and the call has ended raising that error.
C2_OtherErrorPropagatesAtOnce ==
    \A i \in DOMAIN calls :
        calls[i][2] = "error"
        => /\ i = Len(calls)
           /\ rpc = "done"
           /\ rresult = <<"raise", "error", calls[i][1]>>

C2_Witness ==
    /\ rpc = "done"
    /\ Len(calls) = 1
    /\ calls[1][2] = "error"
    /\ \E k \in (vidx + 1)..Len(fallback_vendors) :
           Registered(fallback_vendors[k]) /\ fallback_vendors[k] \notin InvokedVendors

\* C3: a call for a registered method ends with NoAvailableVendor exactly when
\* every invocation it made raised the rate-limit error, and then every vendor
\* registered for the method has been invoked.
C3_ExhaustionRaisesNoAvailableVendor ==
    (rpc = "done" /\ method \in DOMAIN VENDOR_METHODS)
    => /\ (\A i \in DOMAIN calls : calls[i][2] = "rate_limit") <=> (rresult = NoAvailableVendor)
       /\ rresult = NoAvailableVendor
             => /\ Range(VENDOR_METHODS[method]) \subseteq InvokedVendors
                /\ vidx > Len(fallback_vendors)

C3_Witness ==
    /\ rpc = "done"
    /\ rresult = NoAvailableVendor
    /\ Len(calls) = 3
    /\ \E i \in DOMAIN fallback_vendors : ~Registered(fallback_vendors[i])

\* The elements of a sequence in order, later repeats dropped.
RECURSIVE Dedup(_)
Dedup(s) ==
    IF s = <<>> THEN <<>>
    ELSE LET d == Dedup(SubSeq(s, 1, Len(s) - 1))
         IN  IF s[Len(s)] \in Range(d) THEN d ELSE Append(d, s[Len(s)])

\* C4: the chain is the configured vendors in order with duplicates removed,
\* then the other registered vendors in registry order; no vendor is invoked
\* twice in one call.
C4_ChainDeduplicated ==
    (rpc \in {"loop", "invoking", "done"} /\ method \in DOMAIN VENDOR_METHODS)
    => /\ fallback_vendors = AppendMissing(Dedup(primary_vendors), VENDOR_METHODS[method])
       /\ \A i, j \in DOMAIN calls : i # j => calls[i][1] # calls[j][1]

\* C5: a call with a method that is not registered ends with the "Method not
\* supported" error and has invoked no vendor; the resolution of its category
\* and preference has raised no error before.
C5_UnregisteredMethodUnsupported ==
    (method # None /\ method \notin DOMAIN VENDOR_METHODS)
    => /\ rpc = "done"
       /\ rresult = UnsupportedMethod
       /\ calls = <<>>

\* The part of C5 the source of route_to_vendor settles: such a call invokes
\* no vendor, and ends with the "Method not supported" error when
\* get_category_for_method has returned.
UnregisteredMethodInvokesNoVendor ==
    (method # None /\ method \notin DOMAIN VENDOR_METHODS)
    => /\ rpc = "done"
       /\ calls = <<>>
       /\ rresult \in {UnsupportedMethod, <<"raise", CategoryError>>}

\* ===================================================================
\*  Properties of the cache and the indicator lookup
\* ===================================================================

\* The series the vendor holds for the window a cache file is named after.
FetchedSeries(f) == get_stock_data(f[1], f[2], f[3])

\* C6: of two consecutive online lookups with the same cache key, neither of
\* which had its remote fetch fail, both obtain the same series and at most
\* one fetched; a lookup that found the file in place did not fetch.
C6_CacheIdempotent ==
    LET cur == proc["p1"]
    IN  (cur.pc = "done" /\ cur.online)
        => /\ cur.data_file \in DOMAIN cur.snap => (~cur.fetched /\ ~cur.failed)
           /\ (hist.valid /\ hist.data_file = cur.data_file /\ ~hist.failed /\ ~cur.failed)
              => /\ cur.series = hist.series
                 /\ ~(hist.fetched /\ cur.fetched)

\* C7: a request whose remote fetch failed has ended with the fetch's error,
\* and the cache directory is what it was when the request started: the
\* requested file does not exist.
C7_FetchFailureLeavesCache ==
    \A p \in Procs :
        (proc[p].pc = "done" /\ proc[p].failed)
        => /\ proc[p].result = <<"raise", "FetchError">>
           /\ fs = proc[p].snap
           /\ proc[p].data_file \notin DOMAIN fs

C7_Witness ==
    /\ proc["p1"].pc = "done"
    /\ proc["p1"].failed
    /\ proc["p1"].symbol = "S1"
    /\ DataFile("S1", FirstDay) \in DOMAIN fs

\* C8: a cache file that no running request is writing holds the complete
\* series fetched for its key, and a cache hit loads that series.
C8_CacheFilesComplete ==
    /\ \A f \in DOMAIN fs :
           (\A p \in Procs : ~(proc[p].pc = "writing" /\ proc[p].data_file = f))
           => fs[f] = to_csv(FetchedSeries(f))
    /\ \A p \in Procs :
           (proc[p].pc = "lookup" /\ proc[p].hit)
           => proc[p].data = read_csv(to_csv(FetchedSeries(proc[p].data_file)))

\* C9: a cache file is opened for writing by at most one request, no request
\* reads a file another request is writing, and requests for one key that
\* returned have the same series.
C9_WritesSerialized ==
    /\ \A f \in DOMAIN writes : writes[f] <= 1
    /\ \A p \in Procs : ~proc[p].dirty
    /\ \A p, q \in Procs :
           (proc[p].pc = "done" /\ proc[q].pc = "done" /\ proc[p].data_file = proc[q].data_file)
           => proc[p].series = proc[q].series

\* The rows of the price series of a request: the vendor's rows of the window,
\* or the rows of the offline file.
PriceRows(rec) ==
    IF rec.online THEN SetDateIndex(FetchedSeries(rec.data_file)).rows
    ELSE IF rec.symbol \in DOMAIN OfflineFiles
    THEN SetDateIndex(read_csv(OfflineFiles[rec.symbol])).rows
    ELSE <<>>

\* C10: an online lookup of a supported indicator whose fetch did not fail
\* returns the sentinel when the price series has no row of the date's day,
\* and the indicator value of the row of that day when it has one.
C10_TradingDaySentinel ==
    \A p \in Procs :
        (proc[p].pc = "done" /\ proc[p].online /\ proc[p].indicator \in SupportedIndicators
            /\ ~proc[p].failed)
        => LET rows == PriceRows(proc[p])
               hits == MatchingRows(rows, to_datetime(proc[p].curr_date))
           IN  proc[p].result =
                   IF hits = <<>> THEN NotATradingDay
                   ELSE <<"return", IndicatorValue(rows, hits[1], proc[p].indicator)>>
\* ===================================================================
\*  Properties of the indicator entry points (checked under SpecIndicator)
\* ===================================================================

\* C11: a call of an indicator entry point, the single-date lookup or the
\* window lookup, with an indicator neither stockstats nor the window lookup
\* knows has ended with the error that says the indicator is not supported
\* and lists the supported names.
C11_UnknownIndicatorUnsupported ==
    (ind.pc = "done" /\ ind.indicator \notin (SupportedIndicators \cup best_ind_params))
    => /\ ind.result[1] = "raise"
       /\ ind.result = UnsupportedIndicator
\* ===================================================================
\*  Properties of the Site-Search Aggregator (checked under SpecAggregator)
\* ===================================================================

\* The call has returned the items with their summary.
ReturnedResult == apc = "done" /\ final_result[2] = "json"

\* The answer of site i is a JSON array with elements: a value that is true
\* and has no get.
NonEmptyArray(i) == responses[i].kind = "array" /\ responses[i].items # <<>>

\* The sites whose loop turn has ended.
SitesDone == DOMAIN search_summary

\* The tagged items of the sites 1..n whose response was a JSON object.
RECURSIVE ItemsOfSites(_)
ItemsOfSites(n) ==
    IF n = 0 THEN <<>>
    ELSE ItemsOfSites(n - 1)
         \o (IF responses[n].kind = "object"
             THEN TagAll(responses[n].items, SITES[n], responses[n])
             ELSE <<>>)

\* C12: a site whose sub-query raised or returned nothing is in
\* search_details with found_count 0 and added no item, the items of the
\* other sites are all in all_items, and the call still returns a result for
\* all sites (unless another site's answer, an array with elements or a null
\* date, ended it).
C12_FailingSitesContained ==
    /\ \A i \in SitesDone :
           responses[i].kind \in {"raise", "empty"}
           => search_summary[i] = [site |-> SITES[i].name, found_count |-> 0]
    /\ all_items = ItemsOfSites(Len(search_summary))
    /\ (apc \in {"merge", "done"} /\ awindow # NoWindow
            /\ \A i \in DOMAIN responses : ~NonEmptyArray(i))
       => Len(search_summary) = Len(SITES)
    /\ (apc = "done" /\ awindow # NoWindow
            /\ (\A i \in DOMAIN responses : ~NonEmptyArray(i))
            /\ ~SortRaises(DedupByUrl(all_items, {})))
       => final_result[2] = "json"

C12_Witness ==
    /\ ReturnedResult
    /\ responses[1].kind = "raise"
    /\ responses[2].kind = "empty"
    /\ Len(responses[3].items) = 2
    /\ Len(final_result[3].items) = 2

\* The urls of a list of items.
Urls(items) == {items[i].url : i \in DOMAIN items} \ {NoUrl}

\* The first place of a url in a list of items.
FirstOf(items, url) ==
    CHOOSE i \in DOMAIN items :
        items[i].url = url /\ \A j \in 1..(i - 1) : items[j].url # url

\* C13: of every url among the items the sites returned, the returned result
\* holds exactly one item, which is the first item of that url in the order
\* of the sites and of the items of a site; it holds no other item.
C13_OneItemPerUrl ==
    ReturnedResult
    => LET out == final_result[3].items
       IN  /\ Urls(out) = Urls(all_items)
           /\ Len(out) = Cardinality(Urls(all_items))
           /\ \A i \in DOMAIN out : out[i] = all_items[FirstOf(all_items, out[i].url)]

C13_Witness ==
    /\ ReturnedResult
    /\ Len(all_items) = 4
    /\ all_items[1].url = "u1" /\ all_items[2].url = "u1" /\ all_items[3].url = "u1"
    /\ all_items[1].title_or_snippet # all_items[2].title_or_snippet
    /\ all_items[1].platform # all_items[3].platform
    /\ Len(final_result[3].items) = 2

\* C14: the items of a returned result are in non-decreasing order of their
\* datetime_local strings (the empty string for an item without the key).
C14_SortedByDatetime ==
    ReturnedResult
    => LET out == final_result[3].items
       IN  \A i, j \in DOMAIN out :
               i < j => ~StrLess(SortKey(out[j]), SortKey(out[i]))

C14_Witness ==
    /\ ReturnedResult
    /\ Len(final_result[3].items) = 3
    /\ final_result[3].items # DedupByUrl(all_items, {})

\* A "YYYY-MM-DD HH:MM" timestamp, in the model's date strings.
WellFormedTimestamp(s) ==
    /\ Len(s) = 5
    /\ IsDigit(s[1]) /\ s[2] = "-" /\ IsDigit(s[3]) /\ s[4] = " " /\ IsDigit(s[5])

InWindow(s, window) ==
    /\ strptime(window.start) <= strptime(SubSeq(s, 1, 3))
    /\ strptime(SubSeq(s, 1, 3)) <= strptime(window.end)

\* C15: every item of a returned result has a well-formed datetime_local
\* inside the window of the call.
C15_TimestampsInWindow ==
    ReturnedResult
    => \A i \in DOMAIN final_result[3].items :
           LET dt == final_result[3].items[i].datetime_local
           IN  WellFormedTimestamp(dt) /\ InWindow(dt, awindow)

\* The number of items the sites 1..n returned.
RECURSIVE RawCount(_)
RawCount(n) ==
    IF n = 0 THEN 0
    ELSE RawCount(n - 1) + (IF responses[n].kind = "object" THEN Len(responses[n].items) ELSE 0)

\* C16: in a returned result total_items_found is the number of items the
\* sites returned, unique_items the number of items of the result,
\* sites_searched the number of sites, unique_items is at most
\* total_items_found, and search_details has one entry per site in the order
\* of SITES.
C16_SummaryCounts ==
    ReturnedResult
    => LET summary == final_result[3].summary
       IN  /\ summary.total_items_found = RawCount(Len(responses))
           /\ summary.unique_items = Len(final_result[3].items)
           /\ summary.sites_searched = Len(SITES)
           /\ summary.unique_items <= summary.total_items_found
           /\ Len(summary.search_details) = Len(SITES)
           /\ \A i \in DOMAIN summary.search_details :
                  summary.search_details[i].site = SITES[i].name

C16_Witness ==
    /\ ReturnedResult
    /\ \A i \in DOMAIN responses : Len(responses[i].items) = 2
    /\ responses[1].items[1].url = responses[2].items[1].url
    /\ final_result[3].summary.total_items_found = 6
    /\ final_result[3].summary.unique_items = 5
    /\ final_result[3].summary.sites_searched = Len(SITES)

\* C17: while the sub-query of a site is pending or still to come there is
\* no merged item list and no summary; the merge starts after the last site.
C17_MergeAfterAllSites ==
    (apc = "merge" \/ unique_items # <<>> \/ (apc = "done" /\ final_result[2] = "json"))
    => /\ Len(responses) = Len(SITES)
       /\ Len(search_summary) = Len(SITES)
       /\ apc \in {"merge", "done"}

C17_Witness ==
    /\ apc = "merge"
    /\ Len(all_items) = 6
    /\ unique_items = <<>>

\* C18: a call that waits for the answer of a site returns in the end.
C18_AggregationCompletes == (apc = "waiting") ~> (apc = "done")

\* An error outside the per-site handler: the client cannot be made, a date
\* strptime rejects, a site's JSON that is no object, a null date among the
\* items to sort.
UnexpectedError ==
    \/ awindow = NoWindow
    \/ \E i \in DOMAIN responses : NonEmptyArray(i)
    \/ Len(responses) = Len(SITES) /\ SortRaises(DedupByUrl(all_items, {}))

\* C19: a call that met an error outside the per-site handler has failed
\* with an error that reaches its caller, and has returned no result with
\* items or summary, whatever the sites had returned before.
C19_OverallFailureReported ==
    (apc = "done" /\ UnexpectedError) => final_result[1] = "raise"

\* ===================================================================
\*  Cache files under concurrent requests (checked under SpecCacheConc)
\* ===================================================================

\* C20: no step changes or removes a cache file that exists and that no
\* request is in the course of writing.
C20_CacheFilesImmutable ==
    [][\A f \in DOMAIN fs :
           (\A p \in Procs : ~(proc[p].pc = "writing" /\ proc[p].data_file = f))
           => (f \in DOMAIN fs' /\ fs'[f] = fs[f])]_vars

\* ===================================================================
\*  Further properties of the Site-Search Aggregator (SpecAggregator)
\* ===================================================================

\* C21: a site whose response text is not JSON, or is JSON that is no
\* object, has ended its turn of the loop as an empty result with an error
\* marker and found_count 0, and the call returns a result (unless a null
\* date among the items of the other sites ended it).
C21_MalformedResponseDegrades ==
    /\ \A i \in DOMAIN responses :
           responses[i].kind \in {"bad_json", "array"}
           => /\ i \in SitesDone
              /\ search_summary[i].found_count = 0
              /\ search_one_site(SITES[i], responses[i]).items = <<>>
              /\ search_one_site(SITES[i], responses[i]).error # <<>>
    /\ (apc = "done" /\ awindow # NoWindow /\ ~SortRaises(DedupByUrl(all_items, {})))
       => final_result[2] = "json"

\* The sites whose remote call has been sent and has not ended.
InFlight == IF apc = "waiting" THEN {site_idx} ELSE {}

\* C22: while the call waits for a site, the sub-queries of all sites that
\* have not answered yet are in flight.
C22_SubQueriesFanOut ==
    apc = "waiting" => InFlight = (DOMAIN SITES) \ (DOMAIN responses)

\* The site of every item of all_items after the turns of the sites 1..n.
RECURSIVE SourceSites(_)
SourceSites(n) ==
    IF n = 0 THEN <<>>
    ELSE SourceSites(n - 1)
         \o (IF responses[n].kind = "object"
             THEN [i \in DOMAIN responses[n].items |-> n]
             ELSE <<>>)

\* C24: every item of a returned result is an item of all_items, and every
\* item of all_items carries the configured name and category of the site
\* that returned it.
C24_ItemsTaggedWithSite ==
    ReturnedResult
    => LET src == SourceSites(Len(search_summary))
       IN  /\ \A k \in DOMAIN all_items :
                  /\ all_items[k].platform = SITES[src[k]].name
                  /\ all_items[k].category = SITES[src[k]].category
           /\ \A i \in DOMAIN final_result[3].items :
                  \E k \in DOMAIN all_items : final_result[3].items[i] = all_items[k]

\* The sum of found_count over the first n entries of search_details.
RECURSIVE SumFound(_, _)
SumFound(details, n) ==
    IF n = 0 THEN 0 ELSE SumFound(details, n - 1) + details[n].found_count

\* C26: in a returned result the found_count of a site is the number of
\* items the site added to all_items, and the sum of found_count is
\* total_items_found.
C26_FoundCountsConsistent ==
    ReturnedResult
    => LET summary == final_result[3].summary
           details == summary.search_details
       IN  /\ \A i \in DOMAIN details :
                  details[i].found_count =
                      IF responses[i].kind = "object" THEN Len(responses[i].items) ELSE 0
           /\ SumFound(details, Len(details)) = summary.total_items_found

\* ===================================================================
\*  Further properties of the Vendor Router (SpecRouter)
\* ===================================================================

\* The registered vendors among the first k of the chain, in chain order.
RegisteredPrefix(k) ==
    SelectSeq(SubSeq(fallback_vendors, 1, k), LAMBDA v : Registered(v))

\* The vendors invoked so far, in the order of their invocation.
CallVendors == [i \in DOMAIN calls |-> calls[i][1]]

\* The vendor invocations in progress: positions of the chain.
InProgress == IF rpc = "invoking" THEN {vidx} ELSE {}

\* C23: at most one vendor invocation is in progress; when the loop is at
\* position k of the chain, the invocations made are those of the registered
\* vendors before k, in chain order, and each raised the rate-limit error;
\* only the last invocation of a call may have ended otherwise.
C23_VendorsInvokedInSequence ==
    (rpc \in {"loop", "invoking", "done"} /\ method \in DOMAIN VENDOR_METHODS)
    => /\ Cardinality(InProgress) <= 1
       /\ \A i \in 1..(Len(calls) - 1) : calls[i][2] = "rate_limit"
       /\ rpc \in {"loop", "invoking"}
          => /\ \A i \in DOMAIN calls : calls[i][2] = "rate_limit"
             /\ CallVendors = RegisteredPrefix(vidx - 1)
       /\ rpc = "invoking" => Registered(fallback_vendors[vidx])
       /\ rpc = "done"
          => CallVendors = RegisteredPrefix(IF vidx > Len(fallback_vendors)
                                            THEN Len(fallback_vendors) ELSE vidx)

C23_Witness ==
    /\ rpc = "invoking"
    /\ vidx = 4
    /\ Len(calls) = 2
    /\ ~Registered(fallback_vendors[1])

\* C27: a configured name that is not registered for the method is never
\* invoked and raises nothing: a call that raised did so with a vendor's own
\* error or with NoAvailableVendor after all registered vendors; and when no
\* configured name is registered, the vendors the loop can invoke are the
\* registered vendors in registry order.
C27_UnregisteredPreferenceSkipped ==
    (rpc \in {"loop", "invoking", "done"} /\ method \in DOMAIN VENDOR_METHODS)
    => /\ \A i \in DOMAIN calls : Registered(calls[i][1])
       /\ (rpc = "done" /\ rresult[1] = "raise")
          => \/ /\ rresult = NoAvailableVendor
                /\ Range(VENDOR_METHODS[method]) \subseteq InvokedVendors
             \/ /\ calls # <<>>
                /\ rresult = <<"raise", calls[Len(calls)][2], calls[Len(calls)][1]>>
                /\ calls[Len(calls)][2] = "error"
       /\ (Range(primary_vendors) \cap Range(VENDOR_METHODS[method]) = {})
          => SelectSeq(fallback_vendors, LAMBDA v : Registered(v)) = VENDOR_METHODS[method]

C27_Witness ==
    /\ rpc = "done"
    /\ rresult[1] = "return"
    /\ Len(primary_vendors) = 2
    /\ Range(primary_vendors) \cap Range(VENDOR_METHODS[method]) = {}
    /\ CallVendors = SubSeq(VENDOR_METHODS[method], 1, 2)

\* ===================================================================
\*  The cache entry of a window lookup (SpecIndicator)
\* ===================================================================

\* A window lookup in online mode, all of whose dates were looked up on one
\* day.
WindowOnOneDay ==
    ind.entry = "window" /\ ind.online /\ ind.pc \in {"loop", "done"}
    /\ Cardinality(ind.days) <= 1

\* C25: an online window lookup, all of whose dates were looked up on one
\* day, has read one cache entry only and has made at most one remote fetch,
\* however many dates it looked up.
C25_AtMostOneFetch ==
    WindowOnOneDay => (Cardinality(ind.keys) <= 1 /\ ind.fetches <= 1)

\* The stock codes the progress file records.
Recorded == _load_progress(progress_file)

\* The stocks of the list up to the loop's position that the run had to
\* fetch: those the progress file did not record when the run loaded it.
DueSoFar ==
    SelectSeq(SubSeq(StockList, 1, IF fpc \in {"loop", "fetch"} THEN fidx - 1 ELSE fidx),
              LAMBDA c : c \notin fetch_log.loaded)

\* C28: across runs of fetch_all_daily_data on one progress file, interrupted
\* runs included, no stock code is fetched after the progress file recorded
\* it, a run fetches the stocks not yet recorded in list order, and a code
\* the progress file once recorded stays recorded (outside a save under way).
C28_ResumableRuns ==
    /\ fetch_log.refetched = {}
    /\ fpc # "idle" => fetch_log.run_fetched = DueSoFar
    /\ fpc # "writing" => fetch_log.ever_recorded \subseteq Recorded

\* C29: every stock code the progress file records had a remote fetch that
\* did not raise, and its rows, if it had any, are in its daily file.
C29_RecordedOnlyAfterSuccess ==
    \A c \in Recorded :
        /\ fetch_log.last_fetch[c] \in {"data", "empty"}
        /\ fetch_log.last_fetch[c] = "data" => c \in daily_files

\* Whether a submission satisfies both conditions of the search: created
\* within [start_date, end_date], and the query, if one is given, in its
\* title or selftext whatever the case.
Satisfies(submission) ==
    /\ rd.start_date <= submission.created_utc
    /\ submission.created_utc <= rd.end_date
    /\ Truthy(rd.query) =>
           \/ In(lower(rd.query), lower(submission.title))
           \/ In(lower(rd.query), lower(submission.selftext))

\* The posts of the listings that satisfy both conditions, listing by listing.
RECURSIVE SatisfyingPosts(_)
SatisfyingPosts(listings) ==
    IF listings = <<>> THEN <<>>
    ELSE LET kept == SelectSeq(Head(listings), Satisfies)
         IN  [i \in DOMAIN kept |-> post_data(kept[i], rd.subreddit_name)]
             \o SatisfyingPosts(Tail(listings))

\* C30: search_posts_by_date_range returns exactly the posts of the hot, new
\* and top listings created within [start_date, end_date] that hold the query
\* (if one is given), once for each listing they appear in.
C30_SearchFilter ==
    rd.pc = "done" => rd.posts = SatisfyingPosts(rd.listings)

====
